---- MODULE Spec2Model ----
(***************************************************************************)
(* ProfileApp (React Native): the profile held by App (App.tsx), the       *)
(* ProfileScreen's local copy, the stack navigator's routes, the           *)
(* EventDetailScreen's currentEvent, the EditProfileScreen's editedProfile *)
(* and the navigator's `state` listener that folds UPDATE_EVENT params     *)
(* into App's profile.                                                     *)
(*                                                                         *)
(* A JavaScript object is a record; a property that is absent reads as     *)
(* `undefined` (Get).  A string the code trims is a sequence of one-       *)
(* character strings.  An uncaught exception of a handler is recorded in   *)
(* `thrown`.                                                               *)
(***************************************************************************)
EXTENDS Integers, Sequences, FiniteSets, TLC

VARIABLES
  seed,            \* profileData imported by App.tsx
  profile,         \* App: const [profile, setProfile] = useState(profileData)
  screenProfile,   \* ProfileScreen: useState(route.params.profile)
  routes,          \* the stack navigator's state.routes
  currentEvent,    \* EventDetailScreen: useState(event); undefined when not mounted
  editedProfile,   \* EditProfileScreen: useState(profile); undefined when not mounted
  thrown,          \* the exception the last handler left uncaught, or "none"
  alert,           \* the Alert.alert(title, message) of the last handler, or NoAlert
  emitted,         \* where ("tap", "back") the current or last detail visit called onUpdateEvent
  lastEmitted,     \* the argument of the last of these calls, undefined if none
  lastStar,        \* the star tapped last in the current detail visit, NoRating if none
  lastVisit,       \* what the detail view received and held when it was last left
  lastTransition,  \* the navigation state the listener was last handed
  prevProfile,     \* App's profile when the listener was last handed a state
  repeated,        \* the listener was handed the same state twice in a row
  newInterest,     \* EditProfileScreen: useState(''), <<>> when not mounted
  saved,           \* the arguments of onUpdateProfile in the current or last edit visit
  profileImageUri,      \* ProfileScreen: useState<string | null>(null)
  isImageModalVisible,  \* ProfileScreen: useState(false)
  currentImageUri,      \* ImageZoomModal: useState(imageUri)
  lastPick,        \* the last run of the picker since the modal opened: how it ended
                   \* and the arguments it passed to onImageChange
  lastInterestOp,  \* the last press of an interest button that was watched: the
                   \* button, the text or index it was given, the interests it found
  card             \* the event card rendered last, with the event it was given

vars == <<seed, profile, screenProfile, routes, currentEvent, editedProfile,
          thrown, alert, emitted, lastEmitted, lastStar, lastVisit, lastTransition, prevProfile, repeated,
          newInterest, saved, profileImageUri, isImageModalVisible, currentImageUri,
          lastPick, lastInterestOp, card>>

\* The state of the profile image and its modal
imageVars == <<profileImageUri, isImageModalVisible, currentImageUri, lastPick>>

----------------------------------------------------------------------------
(* Bounds of the model *)

MaxEvents == 2    \* longest attendedEvents of a seed profile
MaxTaps == 2      \* star taps in one visit of the detail view

(* Program constants *)

MaxStars == 5     \* renderStars: for (let i = 1; i <= 5; i++)
MaxId == 2        \* the sample data holds two events, numbered 1 and 2
NoRating == 0     \* Event.rating is optional: 0 stands for an absent rating

----------------------------------------------------------------------------
(* JavaScript values *)

undefined == [js |-> "undefined"]

\* The null of `string | null`, a value that is no URI
null == "null"

NoAlert == <<>>

\* obj.key, which is undefined when the property is absent
Get(obj, key) == IF key \in DOMAIN obj THEN obj[key] ELSE undefined

Last(s) == s[Len(s)]
Front(s) == SubSeq(s, 1, Len(s) - 1)

\* String.prototype.trim on a sequence of characters
RECURSIVE TrimStart(_)
TrimStart(s) ==
  IF s = <<>> THEN <<>>
  ELSE IF Head(s) = " " THEN TrimStart(Tail(s)) ELSE s

RECURSIVE TrimEnd(_)
TrimEnd(s) ==
  IF s = <<>> THEN <<>>
  ELSE IF Last(s) = " " THEN TrimEnd(Front(s)) ELSE s

\* Faulty variant: only the leading blanks are removed
TrimLeadingOnly(s) == TrimStart(s)

Trim(s) == TrimEnd(TrimStart(s))

----------------------------------------------------------------------------
(* Seed data: the sample profile, with events rated 4 or unrated *)

SeedEvent(i) ==
  [id |-> i,
   title |-> <<"title", i>>,
   description |-> <<"description", i>>,
   location |-> <<"location", i>>,
   date |-> <<"date", i>>,
   rated |-> (i % 2 = 1),
   rating |-> IF i % 2 = 1 THEN 4 ELSE NoRating,
   coordinates |-> <<"coordinates", i>>]

SeedEventSeqs ==
  UNION { [1..n -> {SeedEvent(i) : i \in 1..MaxId}] : n \in 0..MaxEvents }

SeedProfile(events) ==
  [name |-> <<"A", "u">>,
   bio |-> <<"b", "i", "o">>,
   profileImageUrl |-> "profilepic.png",
   birthdate |-> "1995-01-01",
   email |-> "a@example.com",
   phone |-> "555",
   interests |-> << <<"a">> >>,
   location |-> "Hong Kong",
   occupation |-> "Designer",
   attendedEvents |-> events]

SeedProfiles == { SeedProfile(s) : s \in SeedEventSeqs }

\* What the user can type into a text field
TextInputs == { <<" ">>, <<"b">> }

\* What the user can type into the interest field: blanks, the seed's interest
\* with a leading blank, and "A" with a trailing blank
InterestInputs == { <<" ">>, <<" ", "a">>, <<"A", " ">> }

----------------------------------------------------------------------------
(* App.tsx: the navigator's `state` listener *)

\* state.routes[0].state?.routes.slice(-1)[0]?.params
LastAction(state) ==
  LET nested == Get(state.routes[1], "state")
  IN IF nested = undefined THEN undefined
     ELSE IF nested.routes = <<>> THEN undefined
     ELSE Get(Last(nested.routes), "params")

\* Faulty variant: params that carry any type tag are taken for an update
IsUpdateEventAnyType(lastAction) == "type" \in DOMAIN lastAction

\* lastAction?.type === 'UPDATE_EVENT'
IsUpdateEvent(lastAction) ==
  "type" \in DOMAIN lastAction /\ lastAction.type = "UPDATE_EVENT"

\* event.id === lastAction.payload.id
SameId(event, payload) == "id" \in DOMAIN payload /\ event.id = payload.id

\* Faulty variant: only the rating of the payload is merged into the stored event
MapEventsMergeRating(events, payload) ==
  [i \in 1..Len(events) |->
     IF SameId(events[i], payload)
     THEN [events[i] EXCEPT !.rated = payload.rated, !.rating = payload.rating]
     ELSE events[i]]

\* Faulty variant: an update whose id matches no event is inserted
MapEventsUpsert(events, payload) ==
  IF \E i \in 1..Len(events) : SameId(events[i], payload)
  THEN [i \in 1..Len(events) |->
          IF SameId(events[i], payload) THEN payload ELSE events[i]]
  ELSE IF "id" \in DOMAIN payload THEN Append(events, payload) ELSE events

\* Faulty variant: the updated event is moved to the front of the list
MapEventsMoveToFront(events, payload) ==
  IF \E i \in 1..Len(events) : SameId(events[i], payload)
  THEN <<payload>> \o SelectSeq(events, LAMBDA e : ~SameId(e, payload))
  ELSE events

\* prevProfile.attendedEvents.map(event => event.id === payload.id ? payload : event)
RECURSIVE MapEvents(_, _)
MapEvents(events, payload) ==
  IF events = <<>> THEN <<>>
  ELSE <<IF SameId(Head(events), payload) THEN payload ELSE Head(events)>>
       \o MapEvents(Tail(events), payload)

\* Faulty variant: the payload is also appended after the replacement
applyEventUpdateAppend(prev, payload) ==
  [prev EXCEPT !.attendedEvents =
     IF "id" \in DOMAIN payload
     THEN Append(MapEvents(prev.attendedEvents, payload), payload)
     ELSE MapEvents(prev.attendedEvents, payload)]

\* Faulty variant: the payload is added to the list instead of replacing its event
applyEventUpdateInsert(prev, payload) ==
  [prev EXCEPT !.attendedEvents =
     IF "id" \in DOMAIN payload THEN Append(prev.attendedEvents, payload) ELSE @]

\* Faulty variant: the updater resets the interests along with the events
applyEventUpdateResetsInterests(prev, payload) ==
  [prev EXCEPT !.attendedEvents = MapEvents(prev.attendedEvents, payload),
               !.interests = <<>>]

\* prevProfile => ({...prevProfile, attendedEvents: prevProfile.attendedEvents.map(...)})
applyEventUpdate(prev, payload) ==
  [prev EXCEPT !.attendedEvents = MapEvents(prev.attendedEvents, payload)]

\* lastAction.payload.id is read once per event: it throws a TypeError when the
\* payload is absent and there is an event to map over
UpdaterThrows(prev, lastAction) ==
  Get(lastAction, "payload") = undefined /\ prev.attendedEvents # <<>>

\* The listener's effect on App's profile, and the exception it leaves uncaught
StateListener(state, prev) ==
  LET lastAction == LastAction(state)
  IN IF IsUpdateEvent(lastAction)
     THEN IF UpdaterThrows(prev, lastAction)
          THEN [profile |-> prev, thrown |-> "TypeError"]
          ELSE [profile |-> applyEventUpdate(prev, Get(lastAction, "payload")),
                thrown |-> "none"]
     ELSE [profile |-> prev, thrown |-> "none"]

\* A navigation transition: the navigator hands its new state to the listener
Transition(newRoutes) ==
  LET state == [routes |-> newRoutes]
      out == StateListener(state, profile)
  IN /\ routes' = newRoutes
     /\ profile' = out.profile
     /\ thrown' = out.thrown
     /\ lastTransition' = state
     /\ prevProfile' = profile
     /\ repeated' = (state = lastTransition)

----------------------------------------------------------------------------
(* ProfileScreen *)

OnProfileScreen == Len(routes) = 1
OnEventDetail == Len(routes) = 2 /\ Last(routes).name = "EventDetail"
OnEditProfile == Len(routes) = 2 /\ Last(routes).name = "EditProfile"

\* navigation.navigate('EventDetail', { event }) and the detail view's mount
handleEventPress(i) ==
  /\ OnProfileScreen
  /\ ~isImageModalVisible
  /\ i \in 1..Len(screenProfile.attendedEvents)
  /\ LET event == screenProfile.attendedEvents[i]
     IN /\ Transition(Append(routes, [name |-> "EventDetail",
                                      params |-> [event |-> event]]))
        /\ currentEvent' = event
  /\ emitted' = <<>>
  /\ lastEmitted' = undefined
  /\ lastStar' = NoRating
  /\ lastVisit' = undefined
  /\ alert' = NoAlert
  /\ saved' = <<>>
  /\ UNCHANGED <<seed, screenProfile, editedProfile, newInterest>>
  /\ UNCHANGED imageVars
  /\ UNCHANGED <<lastInterestOp, card>>

\* navigation.navigate('EditProfile', { profile, onUpdateProfile }) and the mount
handleEditProfile ==
  /\ OnProfileScreen
  /\ ~isImageModalVisible
  /\ Transition(Append(routes, [name |-> "EditProfile",
                                params |-> [profile |-> screenProfile,
                                            onUpdateProfile |-> "handleUpdateProfile"]]))
  /\ editedProfile' = screenProfile
  /\ emitted' = <<>>
  /\ lastEmitted' = undefined
  /\ lastStar' = NoRating
  /\ lastVisit' = undefined
  /\ alert' = NoAlert
  /\ newInterest' = <<>>
  /\ saved' = <<>>
  /\ UNCHANGED <<seed, screenProfile, currentEvent>>
  /\ UNCHANGED imageVars
  /\ UNCHANGED <<lastInterestOp, card>>

----------------------------------------------------------------------------
(* EventDetailScreen *)

\* Faulty variant: the star's zero-based index is stored
updatedEventZeroBased(event, rating) ==
  [event EXCEPT !.rated = TRUE, !.rating = rating - 1]

\* Faulty variant: a rating already present is kept
updatedEventKeepsRating(event, rating) ==
  [event EXCEPT !.rated = TRUE, !.rating = IF @ = NoRating THEN rating ELSE @]

\* Faulty variant: the rating is stored without the rated flag
updatedEventNoFlag(event, rating) == [event EXCEPT !.rating = rating]

\* Faulty variant: a star below the present rating is refused
updatedEventKeepsHigher(event, rating) ==
  [event EXCEPT !.rated = TRUE, !.rating = IF @ > rating THEN @ ELSE rating]

\* Faulty variant: the date is overwritten with the day of the rating
updatedEventRedated(event, rating) ==
  [event EXCEPT !.rated = TRUE, !.rating = rating, !.date = <<"date", 0>>]

\* { ...currentEvent, rated: true, rating: rating }
updatedEvent(event, rating) == [event EXCEPT !.rated = TRUE, !.rating = rating]

\* onUpdateEvent(updatedEvent), with onUpdateEvent taken from route.params: the
\* call throws a TypeError when the params carry no onUpdateEvent
CallOnUpdateEvent(params) ==
  IF Get(params, "onUpdateEvent") = undefined THEN "TypeError" ELSE "none"

\* A tap on star `rating`
handleRating(rating) ==
  /\ OnEventDetail
  /\ Len(emitted) < MaxTaps
  /\ LET updated == updatedEvent(currentEvent, rating)
         outcome == CallOnUpdateEvent(Last(routes).params)
     IN /\ currentEvent' = updated
        /\ emitted' = Append(emitted, "tap")
        /\ lastEmitted' = updated
        /\ thrown' = outcome
        /\ alert' = IF outcome = "none" THEN <<"Rating Saved", rating>> ELSE NoAlert
  /\ lastStar' = rating
  /\ UNCHANGED <<seed, profile, screenProfile, routes, editedProfile, lastVisit,
                 lastTransition, prevProfile, repeated, newInterest, saved>>
  /\ UNCHANGED imageVars
  /\ UNCHANGED <<lastInterestOp, card>>

\* The back button: onPress={navigation.goBack}
EventDetailGoBack ==
  /\ OnEventDetail
  /\ Transition(Front(routes))
  /\ lastVisit' = [received |-> Last(routes).params.event, final |-> currentEvent]
  /\ currentEvent' = undefined
  /\ alert' = NoAlert
  /\ UNCHANGED <<seed, screenProfile, editedProfile, emitted, lastEmitted, lastStar,
                 newInterest, saved>>
  /\ UNCHANGED imageVars
  /\ UNCHANGED <<lastInterestOp, card>>

----------------------------------------------------------------------------
(* EditProfileScreen *)

\* Faulty variant: the text is tested without trimming it
IsBlankUntrimmed(text) == text = <<>>

\* !text.trim()
IsBlank(text) == Trim(text) = <<>>

\* editedProfile.interests || []
InterestsOf(p) == IF "interests" \in DOMAIN p THEN p.interests ELSE <<>>

\* Faulty variant: only the first interest is compared
IncludesFirstOnly(interests, value) == interests # <<>> /\ interests[1] = value

\* interests.includes(value)
Includes(interests, value) == \E i \in 1..Len(interests) : interests[i] = value

\* Faulty variant: the text typed is looked up as it was typed
IsDuplicateUntrimmed(interests, text) == Includes(interests, text)

\* interests.includes(newInterest.trim())
IsDuplicate(interests, text) == Includes(interests, Trim(text))

\* Faulty variant: the tag after the pressed one is removed
RemoveAtNext(interests, index) ==
  SubSeq(interests, 1, index) \o SubSeq(interests, index + 2, Len(interests))

\* prev.interests?.filter((_, i) => i !== index), with index counted from 1
RemoveAt(interests, index) ==
  SubSeq(interests, 1, index - 1) \o SubSeq(interests, index + 1, Len(interests))

\* Faulty variant: the profile object is edited in place, and the list view,
\* which holds the same object, sees the edit
heldByProfileScreenInPlace(listProfile, edited) == edited

\* setEditedProfile(prev => ({ ...prev, ... })): the spread builds a new object,
\* so the object the list view holds is what it was
heldByProfileScreen(listProfile, edited) == listProfile

\* onChangeText={(text) => setEditedProfile(prev => ({ ...prev, name: text }))}
changeName(text) ==
  /\ OnEditProfile
  /\ editedProfile' = [editedProfile EXCEPT !.name = text]
  /\ screenProfile' = heldByProfileScreen(screenProfile, editedProfile')
  /\ thrown' = "none"
  /\ alert' = NoAlert
  /\ UNCHANGED <<seed, profile, routes, currentEvent, emitted,
                 lastEmitted, lastStar, lastVisit, lastTransition, prevProfile, repeated,
                 newInterest, saved>>
  /\ UNCHANGED imageVars
  /\ UNCHANGED <<lastInterestOp, card>>

\* onChangeText={(text) => setEditedProfile(prev => ({ ...prev, bio: text }))}
changeBio(text) ==
  /\ OnEditProfile
  /\ editedProfile' = [editedProfile EXCEPT !.bio = text]
  /\ screenProfile' = heldByProfileScreen(screenProfile, editedProfile')
  /\ thrown' = "none"
  /\ alert' = NoAlert
  /\ UNCHANGED <<seed, profile, routes, currentEvent, emitted,
                 lastEmitted, lastStar, lastVisit, lastTransition, prevProfile, repeated,
                 newInterest, saved>>
  /\ UNCHANGED imageVars
  /\ UNCHANGED <<lastInterestOp, card>>

\* onChangeText={setNewInterest}
changeNewInterest(text) ==
  /\ OnEditProfile
  /\ newInterest' = text
  /\ thrown' = "none"
  /\ alert' = NoAlert
  /\ UNCHANGED <<seed, profile, screenProfile, routes, currentEvent, editedProfile,
                 emitted, lastEmitted, lastStar, lastVisit, lastTransition, prevProfile,
                 repeated, saved>>
  /\ UNCHANGED imageVars
  /\ UNCHANGED <<lastInterestOp, card>>

\* What the add button of the interest field does
AddInterest ==
  /\ OnEditProfile
  /\ LET interests == InterestsOf(editedProfile)
     IN IF IsBlank(newInterest)
        THEN /\ alert' = NoAlert
             /\ UNCHANGED <<editedProfile, newInterest>>
        ELSE IF IsDuplicate(interests, newInterest)
        THEN /\ alert' = <<"Duplicate", "This interest already exists">>
             /\ UNCHANGED <<editedProfile, newInterest>>
        ELSE /\ editedProfile' =
                  [editedProfile EXCEPT !.interests = Append(interests, Trim(newInterest))]
             /\ newInterest' = <<>>
             /\ alert' = NoAlert
  /\ screenProfile' = heldByProfileScreen(screenProfile, editedProfile')
  /\ thrown' = "none"
  /\ UNCHANGED <<seed, profile, routes, currentEvent, emitted,
                 lastEmitted, lastStar, lastVisit, lastTransition, prevProfile, repeated,
                 saved>>
  /\ UNCHANGED imageVars
  /\ UNCHANGED card

\* The add button of the interest field
handleAddInterest ==
  /\ AddInterest
  /\ UNCHANGED lastInterestOp

\* What the close button of the interest tag at `index` does
RemoveInterest(index) ==
  /\ OnEditProfile
  /\ index \in 1..Len(InterestsOf(editedProfile))
  /\ editedProfile' =
       [editedProfile EXCEPT !.interests = RemoveAt(InterestsOf(editedProfile), index)]
  /\ screenProfile' = heldByProfileScreen(screenProfile, editedProfile')
  /\ thrown' = "none"
  /\ alert' = NoAlert
  /\ UNCHANGED <<seed, profile, routes, currentEvent, emitted,
                 lastEmitted, lastStar, lastVisit, lastTransition, prevProfile, repeated,
                 newInterest, saved>>
  /\ UNCHANGED imageVars
  /\ UNCHANGED card

\* The close button of the interest tag at `index`
handleRemoveInterest(index) ==
  /\ RemoveInterest(index)
  /\ UNCHANGED lastInterestOp

\* Faulty variant: the interests of the saved profile are dropped
handleUpdateProfileDropsInterests(updatedProfile) ==
  [updatedProfile EXCEPT !.interests = <<>>]

\* Faulty variant: the saved profile's events come back unrated
handleUpdateProfileUnratesEvents(updatedProfile) ==
  [updatedProfile EXCEPT !.attendedEvents =
     [i \in 1..Len(@) |-> [@[i] EXCEPT !.rated = FALSE, !.rating = NoRating]]]

\* ProfileScreen: setProfile(updatedProfile)
handleUpdateProfile(updatedProfile) == updatedProfile

\* The Save button
handleSave ==
  /\ OnEditProfile
  /\ IF IsBlank(editedProfile.name)
     THEN /\ alert' = <<"Error", "Name is required">>
          /\ thrown' = "none"
          /\ UNCHANGED <<profile, screenProfile, routes, editedProfile,
                         lastTransition, prevProfile, repeated, newInterest, saved>>
     ELSE IF IsBlank(editedProfile.bio)
     THEN /\ alert' = <<"Error", "Bio is required">>
          /\ thrown' = "none"
          /\ UNCHANGED <<profile, screenProfile, routes, editedProfile,
                         lastTransition, prevProfile, repeated, newInterest, saved>>
     ELSE /\ screenProfile' = handleUpdateProfile(editedProfile)
          /\ saved' = Append(saved, editedProfile)
          /\ Transition(Front(routes))
          /\ editedProfile' = undefined
          /\ newInterest' = <<>>
          /\ alert' = <<"Success", "Profile updated successfully!">>
  /\ UNCHANGED <<seed, currentEvent, emitted, lastEmitted, lastStar, lastVisit>>
  /\ UNCHANGED imageVars
  /\ UNCHANGED <<lastInterestOp, card>>

\* The back button: onPress={navigation.goBack}
EditProfileGoBack ==
  /\ OnEditProfile
  /\ Transition(Front(routes))
  /\ editedProfile' = undefined
  /\ newInterest' = <<>>
  /\ alert' = NoAlert
  /\ UNCHANGED <<seed, screenProfile, currentEvent, emitted, lastEmitted, lastStar,
                 lastVisit, saved>>
  /\ UNCHANGED imageVars
  /\ UNCHANGED <<lastInterestOp, card>>

----------------------------------------------------------------------------
(* ProfileScreen's profile image and the ImageZoomModal *)

\* Image.resolveAssetSource(defaultProfileImage).uri
DefaultImageUri == "profilepic.png"

\* What the image library or the camera can hand back
ImageUris == { "picked.jpg" }

\* requestMediaLibraryPermissionsAsync / requestCameraPermissionsAsync
PermissionResults == { [granted |-> TRUE], [granted |-> FALSE] }

\* launchImageLibraryAsync / launchCameraAsync: it throws, or it returns a
\* result that is canceled, or one with or without an asset
PickerResults ==
  { [kind |-> "throws"],
    [kind |-> "result", canceled |-> TRUE, assets |-> <<>>],
    [kind |-> "result", canceled |-> FALSE, assets |-> <<>>] }
  \cup { [kind |-> "result", canceled |-> FALSE, assets |-> <<[uri |-> u]>>] :
            u \in ImageUris }

\* profileImageUri || Image.resolveAssetSource(defaultProfileImage).uri
getImageUriForModal(uri) == IF uri = null THEN DefaultImageUri ELSE uri

\* Tapping the profile image: setIsImageModalVisible(true)
handleImagePress ==
  /\ OnProfileScreen
  /\ ~isImageModalVisible
  /\ isImageModalVisible' = TRUE
  /\ thrown' = "none"
  /\ alert' = NoAlert
  /\ UNCHANGED <<seed, profile, screenProfile, routes, currentEvent, editedProfile,
                 emitted, lastEmitted, lastStar, lastVisit, lastTransition, prevProfile,
                 repeated, newInterest, saved, profileImageUri, currentImageUri, lastPick,
                 lastInterestOp, card>>

\* onClose: setIsImageModalVisible(false)
closeImageModal ==
  /\ isImageModalVisible
  /\ isImageModalVisible' = FALSE
  /\ lastPick' = undefined
  /\ thrown' = "none"
  /\ alert' = NoAlert
  /\ UNCHANGED <<seed, profile, screenProfile, routes, currentEvent, editedProfile,
                 emitted, lastEmitted, lastStar, lastVisit, lastTransition, prevProfile,
                 repeated, newInterest, saved, profileImageUri, currentImageUri,
                 lastInterestOp, card>>

\* Faulty variant: the permission result is not looked at
IsDeniedNever(permissionResult) == FALSE

\* permissionResult.granted === false
IsDenied(permissionResult) == permissionResult.granted = FALSE

\* !result.canceled && result.assets[0]
HasAsset(result) == ~result.canceled /\ result.assets # <<>>

\* ProfileScreen: setProfileImageUri(newImageUri)
handleImageChange(newImageUri) == newImageUri

\* How a run of the picker ended, as the platform saw it
PickOutcome(permissionResult, result) ==
  IF permissionResult.granted = FALSE THEN "denied"
  ELSE IF result.kind = "throws" THEN "error"
  ELSE IF result.canceled THEN "canceled"
  ELSE IF result.assets = <<>> THEN "empty"
  ELSE "picked"

\* The body pickImage and takePhoto share: ask for the permission, launch the
\* picker, take the first asset's uri; the catch block reports what is thrown
RunPicker(permissionResult, result, permissionMessage, errorMessage) ==
  /\ isImageModalVisible
  /\ IF IsDenied(permissionResult)
     THEN /\ alert' = <<"Permission Required", permissionMessage>>
          /\ lastPick' = [outcome |-> PickOutcome(permissionResult, result),
                          called |-> <<>>]
          /\ UNCHANGED <<currentImageUri, profileImageUri>>
     ELSE IF result.kind = "throws"
     THEN /\ alert' = <<"Error", errorMessage>>
          /\ lastPick' = [outcome |-> PickOutcome(permissionResult, result),
                          called |-> <<>>]
          /\ UNCHANGED <<currentImageUri, profileImageUri>>
     ELSE IF HasAsset(result)
     THEN /\ currentImageUri' = result.assets[1].uri
          /\ profileImageUri' = handleImageChange(result.assets[1].uri)
          /\ alert' = <<"Success", "Profile image updated!">>
          /\ lastPick' = [outcome |-> PickOutcome(permissionResult, result),
                          called |-> <<result.assets[1].uri>>]
     ELSE /\ alert' = NoAlert
          /\ lastPick' = [outcome |-> PickOutcome(permissionResult, result),
                          called |-> <<>>]
          /\ UNCHANGED <<currentImageUri, profileImageUri>>
  /\ thrown' = "none"
  /\ UNCHANGED <<seed, profile, screenProfile, routes, currentEvent, editedProfile,
                 emitted, lastEmitted, lastStar, lastVisit, lastTransition, prevProfile,
                 repeated, newInterest, saved, isImageModalVisible, lastInterestOp, card>>

\* "Choose from Library"
pickImage(permissionResult, result) ==
  RunPicker(permissionResult, result,
            "Permission to access camera roll is required!",
            "Failed to pick image. Please try again.")

\* "Take Photo"
takePhoto(permissionResult, result) ==
  RunPicker(permissionResult, result,
            "Permission to access camera is required!",
            "Failed to take photo. Please try again.")

----------------------------------------------------------------------------
(* The application *)

\* App mounts with profileData; ProfileScreen is the initial route and copies
\* route.params.profile (initialParams) into its own state
Init ==
  /\ seed \in SeedProfiles
  /\ profile = seed
  /\ screenProfile = seed
  /\ routes = <<[name |-> "Profile", params |-> [profile |-> seed]]>>
  /\ currentEvent = undefined
  /\ editedProfile = undefined
  /\ thrown = "none"
  /\ alert = NoAlert
  /\ emitted = <<>>
  /\ lastEmitted = undefined
  /\ lastStar = NoRating
  /\ lastVisit = undefined
  /\ lastTransition = undefined
  /\ prevProfile = seed
  /\ repeated = FALSE
  /\ newInterest = <<>>
  /\ saved = <<>>
  /\ profileImageUri = null
  /\ isImageModalVisible = FALSE
  /\ currentImageUri = getImageUriForModal(null)
  /\ lastPick = undefined
  /\ lastInterestOp = undefined
  /\ card = undefined

\* The list view, the detail view and the edit view's name, bio and buttons
NextCore ==
  \/ \E i \in 1..MaxEvents : handleEventPress(i)
  \/ \E rating \in 1..MaxStars : handleRating(rating)
  \/ EventDetailGoBack
  \/ handleEditProfile
  \/ \E text \in TextInputs : changeName(text)
  \/ \E text \in TextInputs : changeBio(text)
  \/ handleSave
  \/ EditProfileGoBack

\* The edit view's interest field and tags
NextInterests ==
  \/ \E text \in InterestInputs : changeNewInterest(text)
  \/ handleAddInterest
  \/ \E index \in 1..Cardinality(InterestInputs) : handleRemoveInterest(index)

\* The profile image and its modal
NextImage ==
  \/ handleImagePress
  \/ closeImageModal
  \/ \E permissionResult \in PermissionResults, result \in PickerResults :
       pickImage(permissionResult, result)
  \/ \E permissionResult \in PermissionResults, result \in PickerResults :
       takePhoto(permissionResult, result)

Next ==
  \/ NextCore
  \/ NextInterests
  \/ NextImage

Spec == Init /\ [][Next]_vars

----------------------------------------------------------------------------
(* The listener handed navigation states of any shape: the route of the     *)
(* Profile screen with or without a nested state, whose trailing route has  *)
(* no params, a screen's own params, or params tagged with a type.          *)

\* An updated event as a detail view would send it: rated, with a new rating
PayloadEvent(i, rating) ==
  [SeedEvent(i) EXCEPT !.rated = TRUE, !.rating = rating,
                       !.title = <<"edited", i>>]

\* Ids MaxId + 1 and above match no seed event
Payloads ==
  { PayloadEvent(i, rating) : i \in 1..(MaxId + 1), rating \in {3, 5} }

\* An object that carries no id
NoIdPayload == [rated |-> TRUE, rating |-> 5]

TaggedParams ==
  { [type |-> "UPDATE_EVENT", payload |-> p] : p \in Payloads \cup {NoIdPayload} }
  \cup { [type |-> "UPDATE_EVENT"] }

UntaggedParams ==
  { [type |-> "OTHER", payload |-> PayloadEvent(1, 5)],
    [event |-> SeedEvent(1)],
    [profile |-> SeedProfile(<<>>), onUpdateProfile |-> "handleUpdateProfile"] }

NestedRoutes ==
  { [name |-> "EventDetail", params |-> p] : p \in TaggedParams \cup UntaggedParams }
  \cup { [name |-> "EventDetail"] }

\* A tagged route that is not the trailing one
StaleRoute ==
  [name |-> "EventDetail",
   params |-> [type |-> "UPDATE_EVENT", payload |-> PayloadEvent(1, 3)]]

NestedStates ==
  { [routes |-> rs] :
      rs \in {<<>>} \cup { <<r>> : r \in NestedRoutes }
                    \cup { <<StaleRoute, r>> : r \in NestedRoutes } }

NavigationStates ==
  { [routes |-> <<[name |-> "Profile"]>>] }
  \cup { [routes |-> <<[name |-> "Profile", state |-> n]>>] : n \in NestedStates }

\* The listener's effect alone
Deliver(state) ==
  LET out == StateListener(state, profile)
  IN /\ profile' = out.profile
     /\ thrown' = out.thrown
     /\ alert' = NoAlert

\* The listener is handed `state`; what it was handed and what App held are kept
Observe(state) ==
  /\ Deliver(state)
  /\ lastTransition' = state
  /\ prevProfile' = profile
  /\ repeated' = (state = lastTransition)
  /\ UNCHANGED <<seed, screenProfile, routes, currentEvent, editedProfile,
                 emitted, lastEmitted, lastStar, lastVisit, newInterest, saved>>
  /\ UNCHANGED imageVars
  /\ UNCHANGED <<lastInterestOp, card>>

NextObserver == \E state \in NavigationStates : Observe(state)

SpecObserver == Init /\ [][NextObserver]_vars

\* Tagged updates, built as the detail view builds them from a sample event and
\* its last star, that reach the listener while the list view, the detail view
\* and the edit view run; the interest field and the image modal are left out,
\* since they read and write editedProfile.interests and the image state only
ChannelStates ==
  { [routes |-> <<[name |-> "Profile",
                   state |-> [routes |-> <<[name |-> "EventDetail",
                                            params |-> [type |-> "UPDATE_EVENT",
                                                        payload |-> p]]>>]]>>] :
      p \in { updatedEvent(SeedEvent(i), MaxStars) : i \in 1..(MaxId + 1) } }

Channel(state) ==
  /\ Deliver(state)
  /\ UNCHANGED <<seed, screenProfile, routes, currentEvent, editedProfile,
                 emitted, lastEmitted, lastStar, lastVisit, lastTransition, prevProfile, repeated,
                 newInterest, saved>>
  /\ UNCHANGED imageVars
  /\ UNCHANGED <<lastInterestOp, card>>

NextChannel ==
  \/ NextCore
  \/ \E state \in ChannelStates : Channel(state)

SpecChannel == Init /\ [][NextChannel]_vars

----------------------------------------------------------------------------
(* The edit view of the sample profile, with its interest buttons watched:  *)
(* each press records the button, what it was given and the interests it    *)
(* found.                                                                   *)

SampleProfile == SeedProfile(<<SeedEvent(1), SeedEvent(2)>>)

InitEdit ==
  /\ Init
  /\ seed = SampleProfile

AddInterestWatched ==
  /\ AddInterest
  /\ lastInterestOp' = [op |-> "add", text |-> newInterest,
                        before |-> InterestsOf(editedProfile)]

RemoveInterestWatched(index) ==
  /\ RemoveInterest(index)
  /\ lastInterestOp' = [op |-> "remove", index |-> index,
                        before |-> InterestsOf(editedProfile)]

NextEdit ==
  \/ handleEditProfile
  \/ \E text \in TextInputs : changeName(text)
  \/ \E text \in TextInputs : changeBio(text)
  \/ \E text \in InterestInputs : changeNewInterest(text)
  \/ AddInterestWatched
  \/ \E index \in 1..Cardinality(InterestInputs) : RemoveInterestWatched(index)
  \/ handleSave
  \/ EditProfileGoBack

SpecEdit == InitEdit /\ [][NextEdit]_vars

----------------------------------------------------------------------------
(* The event card of the list view, rendered for an event of any rating *)

\* {event.rated && (<View style={styles.ratingBadge}> ... {event.rating} ...)}:
\* the badge with the text it shows, or nothing
ratingBadge(event) == IF event.rated THEN <<event.rating>> ELSE <<>>

\* Faulty variant: the star at the rating is left dim
renderRatingStarsOneShort(event) ==
  IF event.rating = NoRating THEN null
  ELSE [i \in 1..MaxStars |-> i < event.rating]

\* renderRatingStars: null without a rating, else five stars, star i in the
\* star colour (TRUE) when i <= event.rating and in the inactive colour otherwise
renderRatingStars(event) ==
  IF event.rating = NoRating THEN null
  ELSE [i \in 1..MaxStars |-> i <= event.rating]

\* {event.rating && (<View style={styles.starsContainer}>{renderRatingStars()}</View>)}
starsContainer(event) ==
  IF event.rating # NoRating THEN renderRatingStars(event) ELSE <<>>

EventCard(event) ==
  [badge |-> ratingBadge(event), stars |-> starsContainer(event)]

\* The events a card is rendered for: rated or not, with no rating or 1..5 stars
CardEvents ==
  { [SeedEvent(i) EXCEPT !.rated = rated, !.rating = rating] :
      i \in 1..MaxId, rated \in BOOLEAN, rating \in {NoRating} \cup (1..MaxStars) }

renderEventCard(event) ==
  /\ OnProfileScreen
  /\ card' = [event |-> event, view |-> EventCard(event)]
  /\ UNCHANGED <<seed, profile, screenProfile, routes, currentEvent, editedProfile,
                 thrown, alert, emitted, lastEmitted, lastStar, lastVisit, lastTransition,
                 prevProfile, repeated, newInterest, saved, lastInterestOp>>
  /\ UNCHANGED imageVars

NextCard == \E event \in CardEvents : renderEventCard(event)

SpecCard == Init /\ [][NextCard]_vars

----------------------------------------------------------------------------
(* Properties *)

Ids(events) == [i \in 1..Len(events) |-> events[i].id]

UniqueIds(events) ==
  \A i, j \in 1..Len(events) : events[i].id = events[j].id => i = j

\* The listener has been handed a state whose trailing params carry the tag
ObservedUpdate ==
  /\ lastTransition # undefined
  /\ IsUpdateEvent(LastAction(lastTransition))

ObservedPayload == Get(LastAction(lastTransition), "payload")

HasId(payload) == "id" \in DOMAIN payload

MatchesSome(events, payload) ==
  HasId(payload) /\ \E i \in 1..Len(events) : events[i].id = payload.id

\* The event the detail view received in its current or last visit
ReceivedEvent ==
  IF OnEventDetail THEN Last(routes).params.event ELSE lastVisit.received

\* C1: after the user rates an event with star n in the detail view and goes
\* back, the attendedEvents the list view renders hold the event of that id
\* with rated = true and rating = n.
C1_ListShowsRatingAfterBack ==
  (OnProfileScreen /\ lastVisit # undefined /\ lastStar # NoRating) =>
    \E i \in 1..Len(screenProfile.attendedEvents) :
      /\ screenProfile.attendedEvents[i].id = lastVisit.received.id
      /\ screenProfile.attendedEvents[i].rated = TRUE
      /\ screenProfile.attendedEvents[i].rating = lastStar

\* C2: an update whose id is the id of a stored event yields a list of the
\* same length in which each entry of that id is exactly the update and every
\* other entry is what it was.
C2_ReplacesMatchingEntry ==
  (ObservedUpdate /\ MatchesSome(prevProfile.attendedEvents, ObservedPayload)) =>
    /\ Len(profile.attendedEvents) = Len(prevProfile.attendedEvents)
    /\ \A i \in 1..Len(prevProfile.attendedEvents) :
         profile.attendedEvents[i] =
           IF prevProfile.attendedEvents[i].id = ObservedPayload.id
           THEN ObservedPayload
           ELSE prevProfile.attendedEvents[i]

\* C2 witness: the list <<event 2 unrated, event 1 rated 4>> updated with
\* event 2 rated 5 is <<that update, event 1 rated 4>>.
C2_Witness ==
  /\ ObservedUpdate
  /\ prevProfile.attendedEvents = <<SeedEvent(2), SeedEvent(1)>>
  /\ ObservedPayload = PayloadEvent(2, 5)
  /\ profile.attendedEvents = <<PayloadEvent(2, 5), SeedEvent(1)>>

\* C3: applying the same matching update a second time leaves App's profile
\* as the first application left it.
C3_IdempotentUpdate ==
  (ObservedUpdate /\ repeated
     /\ MatchesSome(prevProfile.attendedEvents, ObservedPayload)) =>
    profile = prevProfile

\* C3 witness: a matching update that changed the seed has been applied twice.
C3_Witness ==
  /\ ObservedUpdate
  /\ repeated
  /\ MatchesSome(prevProfile.attendedEvents, ObservedPayload)
  /\ profile # seed
  /\ thrown = "none"

\* C4: an update whose id matches no stored event leaves attendedEvents as
\* they were, in value and order, and raises no error.
C4_UnmatchedIdIsNoOp ==
  (ObservedUpdate /\ HasId(ObservedPayload)
     /\ ~MatchesSome(prevProfile.attendedEvents, ObservedPayload)) =>
    /\ profile.attendedEvents = prevProfile.attendedEvents
    /\ profile = prevProfile
    /\ thrown = "none"

\* C4 witness: an update with an id no event has was handed to a store that
\* holds two events.
C4_Witness ==
  /\ ObservedUpdate
  /\ HasId(ObservedPayload)
  /\ ObservedPayload.id = MaxId + 1
  /\ Len(prevProfile.attendedEvents) = 2
  /\ profile = prevProfile

\* C5: the ids of App's attendedEvents, in order, are those of the seed in
\* every reachable state: no update adds, deletes or reorders an event.
C5_IdSequencePreserved ==
  /\ Len(profile.attendedEvents) = Len(seed.attendedEvents)
  /\ Ids(profile.attendedEvents) = Ids(seed.attendedEvents)

\* C5 witness: both events of a two-event store have been replaced by updates.
C5_Witness ==
  /\ Len(profile.attendedEvents) = 2
  /\ profile.attendedEvents[1].id # profile.attendedEvents[2].id
  /\ \A i \in 1..2 : profile.attendedEvents[i] # seed.attendedEvents[i]

\* C6: when the seed holds at most one event per id, so do App's profile and
\* the list view's copy in every reachable state.
C6_OneEventPerId ==
  UniqueIds(seed.attendedEvents) =>
    /\ UniqueIds(profile.attendedEvents)
    /\ UniqueIds(screenProfile.attendedEvents)

\* C6 witness: with a seed of two distinct ids, an update has been applied to
\* App's profile and a profile save has replaced the list view's copy.
C6_Witness ==
  /\ Len(seed.attendedEvents) = 2
  /\ UniqueIds(seed.attendedEvents)
  /\ profile # seed
  /\ screenProfile # seed
  /\ OnProfileScreen

\* C7: after a non-empty sequence of star taps, currentEvent.rating is in 1..5
\* and currentEvent.rated is true.
C7_RatingRange ==
  (OnEventDetail /\ lastStar # NoRating) =>
    /\ currentEvent.rating \in 1..MaxStars
    /\ currentEvent.rated = TRUE

\* C7 witness: an unrated event has been tapped twice, last on star 1.
C7_Witness ==
  /\ OnEventDetail
  /\ Len(emitted) = 2
  /\ lastStar = 1
  /\ ReceivedEvent.rated = FALSE
  /\ currentEvent.rating = 1

\* C8: in one visit of the detail view the update is emitted exactly once, at
\* back-navigation, when currentEvent differs from the event received, and not
\* at all when it does not; no update is emitted at a star tap.
C8_EmitsOnceAtBack ==
  /\ \A k \in 1..Len(emitted) : emitted[k] # "tap"
  /\ lastVisit # undefined =>
       IF lastVisit.final # lastVisit.received
       THEN emitted = <<"back">> /\ lastEmitted = lastVisit.final
       ELSE emitted = <<>>

\* C9: the update the detail view emits carries the id, title, description,
\* location, date and coordinates of the event it received, with rated = true
\* and rating = the star tapped last.
C9_EmittedUpdate ==
  emitted # <<>> =>
    /\ lastEmitted.id = ReceivedEvent.id
    /\ lastEmitted.title = ReceivedEvent.title
    /\ lastEmitted.description = ReceivedEvent.description
    /\ lastEmitted.location = ReceivedEvent.location
    /\ lastEmitted.date = ReceivedEvent.date
    /\ lastEmitted.coordinates = ReceivedEvent.coordinates
    /\ lastEmitted.rated = TRUE
    /\ lastEmitted.rating = lastStar

\* C9 witness: opened with an unrated event, star 3 tapped, then left.
C9_Witness ==
  /\ OnProfileScreen
  /\ lastVisit # undefined
  /\ lastVisit.received = SeedEvent(2)
  /\ emitted = <<"tap">>
  /\ lastEmitted = [SeedEvent(2) EXCEPT !.rated = TRUE, !.rating = 3]

\* C10: handed a transition whose trailing params carry the UPDATE_EVENT tag
\* but no event id (payload absent, or without id), the listener does not
\* throw and App's profile is unchanged.
C10_MalformedUpdateIsDropped ==
  (ObservedUpdate /\ ~HasId(ObservedPayload)) =>
    /\ thrown = "none"
    /\ profile = prevProfile

\* The trailing route of the Profile route's nested state carries params
\* tagged UPDATE_EVENT, read off the navigation state itself
CarriesTag(state) ==
  LET first == state.routes[1]
  IN /\ "state" \in DOMAIN first
     /\ first.state.routes # <<>>
     /\ LET trailing == first.state.routes[Len(first.state.routes)]
        IN /\ "params" \in DOMAIN trailing
           /\ "type" \in DOMAIN trailing.params
           /\ trailing.params.type = "UPDATE_EVENT"

\* C11: the listener changes App's profile only for a transition whose
\* trailing params carry the UPDATE_EVENT tag; a transition with no params, or
\* with params of another tag or of no tag, leaves App's profile as it was and
\* throws nothing.
C11_OnlyTaggedTransitionsChangeStore ==
  (lastTransition # undefined /\ ~CarriesTag(lastTransition)) =>
    /\ profile = prevProfile
    /\ thrown = "none"

\* C11 witness: a store of two events that an earlier update has changed is
\* handed a transition whose trailing params are tagged OTHER and carry an
\* event with a stored id; the store is what it was.
C11_Witness ==
  /\ lastTransition # undefined
  /\ ~CarriesTag(lastTransition)
  /\ LastAction(lastTransition) = [type |-> "OTHER", payload |-> PayloadEvent(1, 5)]
  /\ Len(prevProfile.attendedEvents) = 2
  /\ prevProfile.attendedEvents[1].id = 1
  /\ prevProfile # seed
  /\ profile = prevProfile

\* C12: when a transition carries a tagged update whose id matches a stored
\* event, the update is in App's profile after that transition and the list
\* view, reading after it, sees the update and not the old value.
C12_ListReadsUpdateAfterExit ==
  (ObservedUpdate /\ OnProfileScreen
     /\ MatchesSome(prevProfile.attendedEvents, ObservedPayload)) =>
    \A i \in 1..Len(prevProfile.attendedEvents) :
      prevProfile.attendedEvents[i].id = ObservedPayload.id =>
        /\ profile.attendedEvents[i] = ObservedPayload
        /\ screenProfile.attendedEvents[i] = ObservedPayload

\* The interests the edit view holds contain `value`
Present(value, interests) == \E i \in 1..Len(interests) : interests[i] = value

\* C13: in the edit view, while the interest field holds a text that, trimmed,
\* equals (case-sensitively) an interest of editedProfile, no step adds to
\* editedProfile.interests or alters them: a step that is not a removal leaves
\* them unchanged in length and content.
C13_DuplicateInterestIsRefused ==
  [][(/\ OnEditProfile
      /\ OnEditProfile'
      /\ Present(Trim(newInterest), editedProfile.interests)
      /\ Len(editedProfile'.interests) >= Len(editedProfile.interests))
     => editedProfile'.interests = editedProfile.interests]_vars

\* C13 witness: with interests <<"A", "a">> and " a" typed, the add button has
\* answered with the Duplicate alert and the interests are what they were.
C13_Witness ==
  /\ OnEditProfile
  /\ newInterest = <<" ", "a">>
  /\ alert = <<"Duplicate", "This interest already exists">>
  /\ editedProfile.interests = << <<"A">>, <<"a">> >>

SaveErrors == { <<"Error", "Name is required">>, <<"Error", "Bio is required">> }

SaveSuccess == <<"Success", "Profile updated successfully!">>

\* C14: in the edit view, while name or bio is empty after trimming, no step
\* invokes onUpdateProfile, changes the list view's profile or reports a
\* successful save, and the step that reports the error stays in the edit view
\* with editedProfile as it was.
C14_BlankSaveIsBlocked ==
  [][(OnEditProfile
        /\ (Trim(editedProfile.name) = <<>> \/ Trim(editedProfile.bio) = <<>>))
     => /\ saved' = saved
        /\ screenProfile' = screenProfile
        /\ alert' # SaveSuccess
        /\ alert' \in SaveErrors =>
             (routes' = routes /\ editedProfile' = editedProfile)]_vars

\* C14 witness: with name "b" and a bio of one blank, Save has answered "Bio is
\* required"; nothing was passed to onUpdateProfile and the list view's profile
\* is the seed.
C14_Witness ==
  /\ OnEditProfile
  /\ alert = <<"Error", "Bio is required">>
  /\ editedProfile.name = <<"b">>
  /\ editedProfile.bio = <<" ">>
  /\ saved = <<>>
  /\ screenProfile = seed

\* C15: in the edit view, with name and bio both non-empty after trimming, no
\* step reports a save error, and the step that reports the save has invoked
\* onUpdateProfile once, with the editedProfile it found, has navigated back
\* and leaves the list view's profile equal to that editedProfile.
C15_ValidSaveUpdatesList ==
  [][(OnEditProfile
        /\ Trim(editedProfile.name) # <<>> /\ Trim(editedProfile.bio) # <<>>)
     => /\ alert' \notin SaveErrors
        /\ alert' = SaveSuccess =>
             /\ saved' = <<editedProfile>>
             /\ OnProfileScreen'
             /\ screenProfile' = editedProfile]_vars

\* C15 witness: a profile with name "b" and interests <<"a", "A">> has been
\* saved and is what the list view holds.
C15_Witness ==
  /\ OnProfileScreen
  /\ alert = SaveSuccess
  /\ saved = <<screenProfile>>
  /\ screenProfile.name = <<"b">>
  /\ screenProfile.interests = << <<"a">>, <<"A">> >>

\* C16: ratings are committed only at exit: while the detail view is open no
\* update has been emitted, and App's profile and the list view's copy hold
\* the events they held.
C16_CommitOnlyAtExit ==
  OnEventDetail =>
    /\ emitted = <<>>
    /\ profile.attendedEvents = seed.attendedEvents
    /\ screenProfile.attendedEvents = seed.attendedEvents

\* rating is present, an integer in 1..5, iff rated is true
RatedIffRating(event) ==
  /\ event.rating \in {NoRating} \cup 1..MaxStars
  /\ event.rated = TRUE <=> event.rating \in 1..MaxStars

AllRatedIffRating(events) == \A i \in 1..Len(events) : RatedIffRating(events[i])

\* C17: if every seed event has a rating iff it is rated, then so has, in
\* every reachable state, every event of App's profile and of the list view's
\* copy, and the detail view's currentEvent.
C17_RatedIffRatingEverywhere ==
  AllRatedIffRating(seed.attendedEvents) =>
    /\ AllRatedIffRating(profile.attendedEvents)
    /\ AllRatedIffRating(screenProfile.attendedEvents)
    /\ OnEventDetail => RatedIffRating(currentEvent)

\* C17 witness: an update has rated the event of App's profile that the seed
\* holds unrated, and the detail view, opened on that unrated event, has had a
\* star tapped.
C17_Witness ==
  /\ OnEventDetail
  /\ Last(routes).params.event.rated = FALSE
  /\ currentEvent.rated = TRUE
  /\ \E i \in 1..Len(seed.attendedEvents) :
       /\ seed.attendedEvents[i].rated = FALSE
       /\ profile.attendedEvents[i].rated = TRUE

\* C18: a run of the picker that ends with the permission denied, with the
\* user's cancellation, with no asset or with an error thrown leaves the
\* modal's currentImageUri and the list view's profileImageUri as they were
\* and does not invoke onImageChange.
C18_ImageChangesOnlyOnSuccess ==
  [][(lastPick' # undefined /\ lastPick'.outcome # "picked")
     => /\ currentImageUri' = currentImageUri
        /\ profileImageUri' = profileImageUri
        /\ lastPick'.called = <<>>]_vars

\* C18 witness: after a picked image, a run of the picker was denied the
\* permission; both URIs are still the picked one.
C18_Witness ==
  /\ isImageModalVisible
  /\ lastPick # undefined
  /\ lastPick.outcome = "denied"
  /\ alert = <<"Permission Required", "Permission to access camera is required!">>
  /\ profileImageUri = "picked.jpg"
  /\ currentImageUri = "picked.jpg"

\* C19: in the detail view a tap on star k, whatever the event's rating was,
\* leaves currentEvent rated with rating k: the rating is the star tapped
\* last, and a second rating replaces the first.
C19_LastStarWins ==
  (OnEventDetail /\ lastStar # NoRating) =>
    /\ currentEvent.rated = TRUE
    /\ currentEvent.rating = lastStar

\* C19 witness: the event received with rating 4 was tapped on star 5 and then
\* on star 2; its rating is 2.
C19_Witness ==
  /\ OnEventDetail
  /\ Last(routes).params.event.rating = 4
  /\ Len(emitted) = 2
  /\ lastStar = 2
  /\ currentEvent.rating = 2

StaticFields(event) ==
  <<event.id, event.title, event.description, event.location, event.date,
    event.coordinates>>

SameStaticFields(events, seedEvents) ==
  /\ Len(events) = Len(seedEvents)
  /\ \A i \in 1..Len(seedEvents) : StaticFields(events[i]) = StaticFields(seedEvents[i])

\* C20: in every reachable state each event of App's profile and of the list
\* view's copy has the id, title, description, location, date and coordinates
\* of the seed event at its position.
C20_StaticFieldsKept ==
  /\ SameStaticFields(profile.attendedEvents, seed.attendedEvents)
  /\ SameStaticFields(screenProfile.attendedEvents, seed.attendedEvents)

\* C20 witness: App's profile holds its second event rated where the seed
\* holds it unrated, and a profile save has replaced the list view's copy.
C20_Witness ==
  /\ OnProfileScreen
  /\ Len(seed.attendedEvents) = 2
  /\ seed.attendedEvents[2].rated = FALSE
  /\ profile.attendedEvents[2].rated = TRUE
  /\ profile.attendedEvents[2].rating = MaxStars
  /\ saved # <<>>
  /\ screenProfile # seed

\* The fields of a profile other than attendedEvents
OtherFields(p) == [p EXCEPT !.attendedEvents = <<>>]

\* C21: in every reachable state every field of App's profile other than
\* attendedEvents (name, bio, profileImageUrl, birthdate, email, phone,
\* location, occupation, interests) has its seed value; a profile save changes
\* the list view's copy only.
C21_StoreKeepsOtherFields ==
  OtherFields(profile) = OtherFields(seed)

\* C21 witness: an update has changed the events of App's profile and a save
\* has given the list view a name that is not the seed's.
C21_Witness ==
  /\ OnProfileScreen
  /\ profile.attendedEvents # seed.attendedEvents
  /\ saved # <<>>
  /\ screenProfile.name # seed.name
  /\ profile.name = seed.name

\* C25: no operation throws on bad input: the listener, handed any
\* navigation state, throws nothing, and leaves App's profile as it was unless
\* the state carries a tagged update with the id of a stored event.
C25_NoOperationThrows ==
  lastTransition # undefined =>
    /\ thrown = "none"
    /\ ~(CarriesTag(lastTransition)
           /\ MatchesSome(prevProfile.attendedEvents, ObservedPayload)) =>
         profile = prevProfile

RatedCount(events) == Cardinality({ i \in 1..Len(events) : events[i].rated })

\* rated never goes back from true to false at any position of `events`
StaysRated(events, eventsAfter) ==
  \A i \in 1..Len(events) :
    (i <= Len(eventsAfter) /\ events[i].rated) => eventsAfter[i].rated

\* C27: rating is monotone: no step takes an event of App's profile, of the
\* list view's copy or of the detail view's currentEvent from rated = true to
\* rated = false, also when the detail view is opened again on an event it
\* held rated when it was left, and the list view's count of rated events
\* never decreases.
C27_RatedIsMonotone ==
  [][/\ StaysRated(profile.attendedEvents, profile'.attendedEvents)
     /\ StaysRated(screenProfile.attendedEvents, screenProfile'.attendedEvents)
     /\ RatedCount(screenProfile'.attendedEvents)
          >= RatedCount(screenProfile.attendedEvents)
     /\ (OnEventDetail /\ OnEventDetail' /\ currentEvent.rated) => currentEvent'.rated
     /\ (/\ OnProfileScreen
         /\ lastVisit # undefined
         /\ lastVisit.final.rated
         /\ OnEventDetail'
         /\ currentEvent'.id = lastVisit.final.id) => currentEvent'.rated]_vars

\* C28: a profile save never loses a rating: the step that invokes
\* onUpdateProfile leaves the list view's attendedEvents as they were
\* immediately before it.
C28_SaveKeepsEvents ==
  [][(OnEditProfile /\ saved' # saved)
     => screenProfile'.attendedEvents = screenProfile.attendedEvents]_vars

\* C28 witness: the list view holds two events, the first rated; an update
\* has reached App's profile, and a save with a new bio has just returned.
C28_Witness ==
  /\ OnProfileScreen
  /\ alert = SaveSuccess
  /\ saved = <<screenProfile>>
  /\ screenProfile.bio = <<"b">>
  /\ Len(screenProfile.attendedEvents) = 2
  /\ screenProfile.attendedEvents[1].rated
  /\ screenProfile.attendedEvents = seed.attendedEvents
  /\ profile # seed

\* C22: edits are local until saved. A step taken in the edit view that is not a
\* successful save (typing in a field, adding or removing an interest, a refused
\* save, going back) leaves the list view's profile and the store as they were;
\* while the edit view stays open such a step changes nothing but the edit
\* view's own state.
C22_EditsAreLocal ==
  [][(OnEditProfile /\ saved' = saved) =>
       /\ screenProfile' = screenProfile
       /\ profile' = profile
       /\ OnEditProfile' => routes' = routes]_vars

C22_Witness ==
  /\ OnProfileScreen
  /\ saved = <<>>
  /\ alert = NoAlert
  /\ lastInterestOp # undefined
  /\ lastInterestOp.op = "add"
  /\ ~Includes(lastInterestOp.before, Trim(lastInterestOp.text))
  /\ Trim(lastInterestOp.text) # <<>>
  /\ screenProfile = seed

\* A press of an interest button that was watched
InterestPress == lastInterestOp' # lastInterestOp

C24_CardShowsRating ==
  card # undefined =>
    LET event == card.event
        view == card.view
    IN /\ (~event.rated /\ event.rating = NoRating) =>
            (view.badge = <<>> /\ view.stars = <<>>)
       /\ (event.rated /\ event.rating # NoRating) =>
            /\ view.badge = <<event.rating>>
            /\ Len(view.stars) = 5
            /\ Cardinality({ i \in 1..Len(view.stars) : view.stars[i] }) = event.rating

C24_Witness ==
  /\ card # undefined
  /\ card.event.rated
  /\ card.event.rating = 3
  /\ card.view.badge = <<3>>
  /\ card.view.stars = <<TRUE, TRUE, TRUE, FALSE, FALSE>>

NoDuplicates(interests) ==
  \A i, j \in 1..Len(interests) : interests[i] = interests[j] => i = j

\* C26: when the profile given to the edit view has no duplicate interests,
\* editedProfile.interests has none after any adds, removes and field edits, and
\* neither has the list view's profile after any save.
C26_NoDuplicateInterests ==
  NoDuplicates(seed.interests) =>
    /\ NoDuplicates(screenProfile.interests)
    /\ OnEditProfile => NoDuplicates(editedProfile.interests)
    /\ \A i \in 1..Len(saved) : NoDuplicates(saved[i].interests)

C26_Witness ==
  /\ OnEditProfile
  /\ Len(screenProfile.interests) = 2
  /\ editedProfile.interests = << <<"A">>, <<"a">> >>
  /\ lastInterestOp # undefined
  /\ lastInterestOp.op = "add"
  /\ Includes(lastInterestOp.before, <<"a">>)
  /\ alert = <<"Duplicate", "This interest already exists">>

AllBlanks(text) == \A i \in 1..Len(text) : text[i] = " "

NoOuterBlanks(text) == text # <<>> /\ text[1] # " " /\ text[Len(text)] # " "

\* `text` with blanks in front and behind is `typed`
IsTrimmed(text, typed) ==
  /\ NoOuterBlanks(text)
  /\ \E i \in 1..Len(typed) :
       /\ i + Len(text) - 1 <= Len(typed)
       /\ SubSeq(typed, i, i + Len(text) - 1) = text
       /\ AllBlanks(SubSeq(typed, 1, i - 1))
       /\ AllBlanks(SubSeq(typed, i + Len(text), Len(typed)))

\* C29: add-interest with an empty or all-blank input leaves the interests as
\* they are; an interest that is added is the input without its leading and
\* trailing blanks; the input field is cleared when an interest was added and
\* only then.
C29_AddTrimsAndClears ==
  [][(InterestPress /\ lastInterestOp'.op = "add") =>
       LET typed == lastInterestOp'.text
           old == editedProfile.interests
           new == editedProfile'.interests
       IN /\ typed = newInterest
          /\ AllBlanks(typed) => new = old
          /\ new # old => /\ IsTrimmed(Last(new), typed)
                          /\ newInterest' = <<>>
          /\ new = old => newInterest' = newInterest]_vars

C29_Witness ==
  /\ OnEditProfile
  /\ lastInterestOp # undefined
  /\ lastInterestOp.op = "add"
  /\ lastInterestOp.text = <<"A", " ">>
  /\ editedProfile.interests = Append(lastInterestOp.before, <<"A">>)
  /\ newInterest = <<>>

====
